---- MODULE Spec2Model ----
(***************************************************************************)
(* The etcd-backed registries of pkg/deploy/registry/etcd and              *)
(* pkg/image/registry/etcd: four resource kinds (deployment,               *)
(* deploymentConfig, image, imageRepository), each with List, Get, Create, *)
(* Update, Delete and (for three of them) Watch, layered over one          *)
(* hierarchical versioned key-value store (tools.EtcdHelper).              *)
(*                                                                         *)
(* The registries hold no state of their own; the state of the model is    *)
(* the backing store, the outcome of the last registry call, the open      *)
(* watch subscription, the argument/result of the version parser, and the  *)
(* positions of the clients that are inside Create concurrently (race);    *)
(* shadow is a history variable: the last successful registry write of     *)
(* each kind and id.                                                       *)
(***************************************************************************)
EXTENDS Integers, Sequences, FiniteSets, TLC

VARIABLES store, last, shadow, watch, parse, race

vars == <<store, last, shadow, watch, parse, race>>

(***************************************************************************)
(* Bounds of the model.                                                    *)
(***************************************************************************)
\* Number of successful store writes (the store's index stops here).
MaxIndex == 2
\* Length of the generated resource version tokens.
MaxTokLen == 2
\* Number of clients that call Create concurrently.
MaxCreators == 3

(***************************************************************************)
(* Input alphabets.                                                        *)
(***************************************************************************)
Kinds == {"deployment", "deploymentConfig", "image", "imageRepository"}
Ids == {"a", "b"}
LabelSets == {{}, {"x"}}

\* An entity of a kind: its Go type (one per kind), its ID and its Labels.
Entities(kind) == [type : {kind}, id : Ids, labels : LabelSets]

NoObj == [type |-> "", id |-> "", labels |-> {}]

\* labels.Selector, by the set of labels it requires: {} is labels.Everything(),
\* {"x"} selects the entities labelled x, {"y"} matches no entity of the model.
Selectors == {{}, {"x"}, {"y"}}

\* selector.Matches(labels.Set(item.Labels))
Matches(selector, labels) == selector \subseteq labels

(***************************************************************************)
(* Errors.  A nil error, the domain errors of the error translator (tagged *)
(* with operation, kind and id; value is the offending resource version of *)
(* an InvalidResourceVersion) and the bare errors.New(msg) share one       *)
(* record shape.                                                           *)
(***************************************************************************)
NilError == [code |-> "nil", op |-> "", kind |-> "", id |-> "", value |-> ""]

DomainError(code, op, kind, id) ==
  [code |-> code, op |-> op, kind |-> kind, id |-> id, value |-> ""]

\* errors.New(msg): a bare error carrying only its message.
ErrorsNew(msg) == [code |-> msg, op |-> "", kind |-> "", id |-> "", value |-> ""]

\* etcderr.Interpret{Get,Create,Update,Delete}Error(err, kind, id)
InterpretGetError(err, kind, id) ==
  CASE err = "ok" -> NilError
    [] err = "KeyNotFound" -> DomainError("NotFound", "get", kind, id)
    [] OTHER -> DomainError("Internal", "get", kind, id)

InterpretCreateError(err, kind, id) ==
  CASE err = "ok" -> NilError
    [] err = "NodeExist" -> DomainError("AlreadyExists", "create", kind, id)
    [] OTHER -> DomainError("Internal", "create", kind, id)

InterpretUpdateError(err, kind, id) ==
  CASE err = "ok" -> NilError
    [] err \in {"KeyNotFound", "NodeExist"} -> DomainError("Conflict", "update", kind, id)
    [] OTHER -> DomainError("Internal", "update", kind, id)

InterpretDeleteError(err, kind, id) ==
  CASE err = "ok" -> NilError
    [] err = "KeyNotFound" -> DomainError("NotFound", "delete", kind, id)
    [] OTHER -> DomainError("Internal", "delete", kind, id)

\* etcderr.InterpretResourceVersionError(err, kind, value): the parse failure
\* of a resource version, carrying the kind and the token.
InterpretResourceVersionError(err, kind, value) ==
  [code |-> "InvalidResourceVersion", op |-> "watch", kind |-> kind, id |-> "",
   value |-> value]

(***************************************************************************)
(* uint64 values, written as decimal numerals without leading zeros (TLC's *)
(* integers are narrower than 64 bits).                                    *)
(***************************************************************************)
MaxUint64 == "18446744073709551615"

DigitChars == {"0", "1", "2", "3", "4", "5", "6", "7", "8", "9"}

DigitVal(c) == CHOOSE d \in 0..9 : SubSeq("0123456789", d + 1, d + 1) = c

DigitChar(d) == SubSeq("0123456789", d + 1, d + 1)

\* a < b for numerals of the same length
RECURSIVE SameLenLess(_, _)
SameLenLess(a, b) ==
  IF a = "" THEN FALSE
  ELSE LET x == DigitVal(SubSeq(a, 1, 1))
           y == DigitVal(SubSeq(b, 1, 1))
       IN IF x # y THEN x < y
          ELSE SameLenLess(SubSeq(a, 2, Len(a)), SubSeq(b, 2, Len(b)))

\* a < b as numbers
Uint64Less(a, b) ==
  \/ Len(a) < Len(b)
  \/ Len(a) = Len(b) /\ SameLenLess(a, b)

\* the numeral of n + 1, of unbounded width
RECURSIVE Successor(_)
Successor(n) ==
  IF n = "" THEN "1"
  ELSE LET d == DigitVal(SubSeq(n, Len(n), Len(n)))
           front == SubSeq(n, 1, Len(n) - 1)
       IN IF d = 9 THEN Successor(front) \o "0"
          ELSE front \o DigitChar(d + 1)

\* version + 1 in uint64 arithmetic: the sum modulo 2^64.
Uint64Inc(n) == IF n = MaxUint64 THEN "0" ELSE Successor(n)

\* the numeral of a natural number of the model
RECURSIVE ToUint64(_)
ToUint64(n) ==
  IF n < 10 THEN DigitChar(n) ELSE ToUint64(n \div 10) \o DigitChar(n % 10)

\* The digit loop of strconv.ParseUint(s, 10, 64) from position i with the
\* value n read so far: a byte that is no digit is a syntax error, a value
\* above 2^64-1 a range error.
RECURSIVE ParseDigits(_, _, _)
ParseDigits(s, i, n) ==
  IF i > Len(s) THEN [err |-> "ok", val |-> n]
  ELSE LET c == SubSeq(s, i, i)
           n1 == IF n = "0" THEN c ELSE n \o c
       IN IF c \notin DigitChars THEN [err |-> "syntax", val |-> "0"]
          ELSE IF Uint64Less(MaxUint64, n1) THEN [err |-> "range", val |-> MaxUint64]
          ELSE ParseDigits(s, i + 1, n1)

\* strconv.ParseUint(s, 10, 64)
ParseUint(s) ==
  IF s = "" THEN [err |-> "syntax", val |-> "0"] ELSE ParseDigits(s, 1, "0")

(***************************************************************************)
(* The backing store: the nodes by key, the index of the last change, and  *)
(* the history of changes the watches are served from.  Every call may     *)
(* fail without reaching the store (fault).                                *)
(***************************************************************************)
EmptyStore == [nodes |-> << >>, index |-> 0, hist |-> << >>]

Present(st, key) == key \in DOMAIN st.nodes

\* The store after one change: the node set or removed, the index advanced,
\* the change appended to the history.
Changed(st, action, key, obj) ==
  [nodes |-> IF action = "delete"
             THEN [k \in DOMAIN st.nodes \ {key} |-> st.nodes[k]]
             ELSE [k \in DOMAIN st.nodes \cup {key} |->
                     IF k = key THEN obj ELSE st.nodes[k]],
   index |-> st.index + 1,
   hist |-> Append(st.hist,
                   [index |-> st.index + 1, action |-> action, key |-> key,
                    obj |-> IF action = "delete" THEN st.nodes[key] ELSE obj])]

\* EtcdHelper.ExtractObj(key, &obj, false)
ExtractObj(st, key, fault) ==
  IF fault THEN [err |-> "Unavailable", obj |-> NoObj]
  ELSE IF Present(st, key) THEN [err |-> "ok", obj |-> st.nodes[key]]
  ELSE [err |-> "KeyNotFound", obj |-> NoObj]

\* EtcdHelper.CreateObj(key, obj, 0): insert, failing when the key exists.
CreateObj(st, key, obj, fault) ==
  IF fault THEN [err |-> "Unavailable", st |-> st]
  ELSE IF Present(st, key) THEN [err |-> "NodeExist", st |-> st]
  ELSE [err |-> "ok", st |-> Changed(st, "create", key, obj)]

\* EtcdHelper.SetObj(key, obj): unconditional overwrite.
SetObj(st, key, obj, fault) ==
  IF fault THEN [err |-> "Unavailable", st |-> st]
  ELSE [err |-> "ok", st |-> Changed(st, "set", key, obj)]

\* EtcdHelper.Delete(key, false): remove one node.
Delete(st, key, fault) ==
  IF fault THEN [err |-> "Unavailable", st |-> st]
  ELSE IF Present(st, key) THEN [err |-> "ok", st |-> Changed(st, "delete", key, NoObj)]
  ELSE [err |-> "KeyNotFound", st |-> st]

\* key lies directly under directory dir
Under(key, dir) ==
  /\ Len(key) > Len(dir) + 1
  /\ SubSeq(key, 1, Len(dir) + 1) = dir \o "/"

\* The orders in which the store may enumerate the keys of a set.
RECURSIVE Enumerations(_)
Enumerations(keys) ==
  IF keys = {} THEN {<< >>}
  ELSE UNION {{<<k>> \o rest : rest \in Enumerations(keys \ {k})} : k \in keys}

\* EtcdHelper.ExtractToList(dir, &list): the objects under dir, in the order
\* `order` the store enumerates them.
ExtractToList(st, dir, order, fault) ==
  IF fault THEN [err |-> "Unavailable", items |-> << >>]
  ELSE [err |-> "ok", items |-> [i \in 1..Len(order) |-> st.nodes[order[i]]]]

ListOrders(st, dir) == Enumerations({k \in DOMAIN st.nodes : Under(k, dir)})

(***************************************************************************)
(* What a registry call returned (last), and the history variable shadow.  *)
(***************************************************************************)
NoCall ==
  [op |-> "", kind |-> "", id |-> "", arg |-> NoObj, obj |-> NoObj, sel |-> {},
   raw |-> << >>, items |-> << >>, err |-> NilError, storeErr |-> "none",
   before |-> "none", token |-> ""]

\* A call of op on a kind and id: arg is the entity passed, obj the entity
\* returned, err the error returned, storeErr the outcome of the store call
\* it made ("none": no store call), before the shadow state of the id when the
\* call was made.
Returned(op, kind, id, arg, obj, err, storeErr) ==
  [NoCall EXCEPT !.op = op, !.kind = kind, !.id = id, !.arg = arg, !.obj = obj,
                 !.err = err, !.storeErr = storeErr,
                 !.before = shadow[<<kind, id>>].st]

\* A List call: raw is the collection the store extracted, items the
\* collection returned.
Listed(kind, selector, raw, items, err, storeErr) ==
  [NoCall EXCEPT !.op = "list", !.kind = kind, !.sel = selector, !.raw = raw,
                 !.items = items, !.err = err, !.storeErr = storeErr]

NoWrite == [st |-> "none", obj |-> NoObj]

\* shadow after a write call of op that returned err.
Shadowed(op, kind, id, obj, err) ==
  IF err = NilError
  THEN [shadow EXCEPT ![<<kind, id>>] =
          [st |-> op, obj |-> IF op = "delete" THEN NoObj ELSE obj]]
  ELSE shadow

\* The filter loop of the List methods: the items matching the selector,
\* appended in the order of the extracted collection.
RECURSIVE Filtered(_, _)
Filtered(items, selector) ==
  IF items = << >> THEN << >>
  ELSE LET rest == Filtered(SubSeq(items, 1, Len(items) - 1), selector)
           item == items[Len(items)]
       IN IF Matches(selector, item.labels) THEN Append(rest, item) ELSE rest

(***************************************************************************)
(* Kind deployment, under /deployments.                                    *)
(***************************************************************************)
makeDeploymentKey(id) == "/deployments/" \o id

ListDeployments(selector, order, fault) ==
  LET r == ExtractToList(store, "/deployments", order, fault)
  IN /\ last' = IF r.err # "ok"
                THEN Listed("deployment", selector, << >>, << >>,
                            ErrorsNew(r.err), r.err)
                ELSE Listed("deployment", selector, r.items,
                            Filtered(r.items, selector), NilError, r.err)
     /\ UNCHANGED <<store, shadow, watch, parse, race>>

\* GetDeployment reading under the sibling kind's namespace.
GetDeployment_WrongKey(id, fault) ==
  LET r == ExtractObj(store, "/deploymentConfigs/" \o id, fault)
  IN /\ last' = IF r.err # "ok"
                THEN Returned("get", "deployment", id, NoObj, NoObj,
                              InterpretGetError(r.err, "deployment", id), r.err)
                ELSE Returned("get", "deployment", id, NoObj, r.obj, NilError, r.err)
     /\ UNCHANGED <<store, shadow, watch, parse, race>>

GetDeployment(id, fault) ==
  LET r == ExtractObj(store, makeDeploymentKey(id), fault)
  IN /\ last' = IF r.err # "ok"
                THEN Returned("get", "deployment", id, NoObj, NoObj,
                              InterpretGetError(r.err, "deployment", id), r.err)
                ELSE Returned("get", "deployment", id, NoObj, r.obj, NilError, r.err)
     /\ UNCHANGED <<store, shadow, watch, parse, race>>

CreateDeployment(e, fault) ==
  LET r == CreateObj(store, makeDeploymentKey(e.id), e, fault)
      err == InterpretCreateError(r.err, "deployment", e.id)
  IN /\ store' = r.st
     /\ last' = Returned("create", "deployment", e.id, e, NoObj, err, r.err)
     /\ shadow' = Shadowed("create", "deployment", e.id, e, err)
     /\ UNCHANGED <<watch, parse, race>>

\* UpdateDeployment as a conditional write: the store refuses the set of a
\* key that is absent.
UpdateDeployment_IfPresent(e, fault) ==
  LET r == IF Present(store, "/deployments/" \o e.id) \/ fault
           THEN SetObj(store, "/deployments/" \o e.id, e, fault)
           ELSE [err |-> "KeyNotFound", st |-> store]
      err == InterpretUpdateError(r.err, "deployment", e.id)
  IN /\ store' = r.st
     /\ last' = Returned("update", "deployment", e.id, e, NoObj, err, r.err)
     /\ shadow' = Shadowed("update", "deployment", e.id, e, err)
     /\ UNCHANGED <<watch, parse, race>>

UpdateDeployment(e, fault) ==
  LET r == SetObj(store, makeDeploymentKey(e.id), e, fault)
      err == InterpretUpdateError(r.err, "deployment", e.id)
  IN /\ store' = r.st
     /\ last' = Returned("update", "deployment", e.id, e, NoObj, err, r.err)
     /\ shadow' = Shadowed("update", "deployment", e.id, e, err)
     /\ UNCHANGED <<watch, parse, race>>

DeleteDeployment(id, fault) ==
  LET r == Delete(store, makeDeploymentKey(id), fault)
      err == InterpretDeleteError(r.err, "deployment", id)
  IN /\ store' = r.st
     /\ last' = Returned("delete", "deployment", id, NoObj, NoObj, err, r.err)
     /\ shadow' = Shadowed("delete", "deployment", id, NoObj, err)
     /\ UNCHANGED <<watch, parse, race>>

(***************************************************************************)
(* Kind deploymentConfig, under /deploymentConfigs.                        *)
(***************************************************************************)
\* makeDeploymentConfigKey building its keys under the deployments' namespace.
makeDeploymentConfigKey_SharedNamespace(id) == "/deployments/" \o id

makeDeploymentConfigKey(id) == "/deploymentConfigs/" \o id

\* ListDeploymentConfigs returning the extracted collection unfiltered.
ListDeploymentConfigs_Unfiltered(selector, order, fault) ==
  LET r == ExtractToList(store, "/deploymentConfigs", order, fault)
  IN /\ last' = IF r.err # "ok"
                THEN Listed("deploymentConfig", selector, << >>, << >>,
                            ErrorsNew(r.err), r.err)
                ELSE Listed("deploymentConfig", selector, r.items, r.items,
                            NilError, r.err)
     /\ UNCHANGED <<store, shadow, watch, parse, race>>

ListDeploymentConfigs(selector, order, fault) ==
  LET r == ExtractToList(store, "/deploymentConfigs", order, fault)
  IN /\ last' = IF r.err # "ok"
                THEN Listed("deploymentConfig", selector, << >>, << >>,
                            ErrorsNew(r.err), r.err)
                ELSE Listed("deploymentConfig", selector, r.items,
                            Filtered(r.items, selector), NilError, r.err)
     /\ UNCHANGED <<store, shadow, watch, parse, race>>

GetDeploymentConfig(id, fault) ==
  LET r == ExtractObj(store, makeDeploymentConfigKey(id), fault)
  IN /\ last' = IF r.err # "ok"
                THEN Returned("get", "deploymentConfig", id, NoObj, NoObj,
                              InterpretGetError(r.err, "deploymentConfig", id), r.err)
                ELSE Returned("get", "deploymentConfig", id, NoObj, r.obj, NilError, r.err)
     /\ UNCHANGED <<store, shadow, watch, parse, race>>

CreateDeploymentConfig(e, fault) ==
  LET r == CreateObj(store, makeDeploymentConfigKey(e.id), e, fault)
      err == InterpretCreateError(r.err, "deploymentConfig", e.id)
  IN /\ store' = r.st
     /\ last' = Returned("create", "deploymentConfig", e.id, e, NoObj, err, r.err)
     /\ shadow' = Shadowed("create", "deploymentConfig", e.id, e, err)
     /\ UNCHANGED <<watch, parse, race>>

UpdateDeploymentConfig(e, fault) ==
  LET r == SetObj(store, makeDeploymentConfigKey(e.id), e, fault)
      err == InterpretUpdateError(r.err, "deploymentConfig", e.id)
  IN /\ store' = r.st
     /\ last' = Returned("update", "deploymentConfig", e.id, e, NoObj, err, r.err)
     /\ shadow' = Shadowed("update", "deploymentConfig", e.id, e, err)
     /\ UNCHANGED <<watch, parse, race>>

DeleteDeploymentConfig(id, fault) ==
  LET r == Delete(store, makeDeploymentConfigKey(id), fault)
      err == InterpretDeleteError(r.err, "deploymentConfig", id)
  IN /\ store' = r.st
     /\ last' = Returned("delete", "deploymentConfig", id, NoObj, NoObj, err, r.err)
     /\ shadow' = Shadowed("delete", "deploymentConfig", id, NoObj, err)
     /\ UNCHANGED <<watch, parse, race>>

(***************************************************************************)
(* Kind image, under /images.                                              *)
(***************************************************************************)
makeImageKey(id) == "/images/" \o id

ListImages(selector, order, fault) ==
  LET r == ExtractToList(store, "/images", order, fault)
  IN /\ last' = IF r.err # "ok"
                THEN Listed("image", selector, << >>, << >>,
                            ErrorsNew(r.err), r.err)
                ELSE Listed("image", selector, r.items,
                            Filtered(r.items, selector), NilError, r.err)
     /\ UNCHANGED <<store, shadow, watch, parse, race>>

\* GetImage calling ExtractObj with ignoreNotFound set: an absent key gives
\* the zero object and no error.
GetImage_IgnoreNotFound(id, fault) ==
  LET r == ExtractObj(store, "/images/" \o id, fault)
  IN /\ last' = IF r.err \notin {"ok", "KeyNotFound"}
                THEN Returned("get", "image", id, NoObj, NoObj,
                              InterpretGetError(r.err, "image", id), r.err)
                ELSE Returned("get", "image", id, NoObj, r.obj, NilError, r.err)
     /\ UNCHANGED <<store, shadow, watch, parse, race>>

GetImage(id, fault) ==
  LET r == ExtractObj(store, makeImageKey(id), fault)
  IN /\ last' = IF r.err # "ok"
                THEN Returned("get", "image", id, NoObj, NoObj,
                              InterpretGetError(r.err, "image", id), r.err)
                ELSE Returned("get", "image", id, NoObj, r.obj, NilError, r.err)
     /\ UNCHANGED <<store, shadow, watch, parse, race>>

\* CreateImage overwriting the key before it reports that the key exists.
CreateImage_OverwriteThenFail(e, fault) ==
  LET r == CreateObj(store, "/images/" \o e.id, e, fault)
      err == InterpretCreateError(r.err, "image", e.id)
  IN /\ store' = IF r.err = "NodeExist"
                 THEN SetObj(store, "/images/" \o e.id, e, FALSE).st
                 ELSE r.st
     /\ last' = Returned("create", "image", e.id, e, NoObj, err, r.err)
     /\ shadow' = Shadowed("create", "image", e.id, e, err)
     /\ UNCHANGED <<watch, parse, race>>

CreateImage(e, fault) ==
  LET r == CreateObj(store, makeImageKey(e.id), e, fault)
      err == InterpretCreateError(r.err, "image", e.id)
  IN /\ store' = r.st
     /\ last' = Returned("create", "image", e.id, e, NoObj, err, r.err)
     /\ shadow' = Shadowed("create", "image", e.id, e, err)
     /\ UNCHANGED <<watch, parse, race>>

\* UpdateImage overwriting the stored image like the other kinds' Update.
UpdateImage_Sets(e) ==
  LET r == SetObj(store, "/images/" \o e.id, e, FALSE)
      err == InterpretUpdateError(r.err, "image", e.id)
  IN /\ store' = r.st
     /\ last' = Returned("update", "image", e.id, e, NoObj, err, r.err)
     /\ shadow' = Shadowed("update", "image", e.id, e, err)
     /\ UNCHANGED <<watch, parse, race>>

UpdateImage(e) ==
  /\ last' = Returned("update", "image", e.id, e, NoObj,
                      ErrorsNew("not supported"), "none")
  /\ UNCHANGED <<store, shadow, watch, parse, race>>

DeleteImage(id, fault) ==
  LET r == Delete(store, makeImageKey(id), fault)
      err == InterpretDeleteError(r.err, "image", id)
  IN /\ store' = r.st
     /\ last' = Returned("delete", "image", id, NoObj, NoObj, err, r.err)
     /\ shadow' = Shadowed("delete", "image", id, NoObj, err)
     /\ UNCHANGED <<watch, parse, race>>

(***************************************************************************)
(* Kind imageRepository, under /imageRepositories.                         *)
(***************************************************************************)
makeImageRepositoryKey(id) == "/imageRepositories/" \o id

\* ListImageRepositories passing the store's failure through the error
\* translator, as the per-entity calls do.
ListImageRepositories_Translated(selector, order, fault) ==
  LET r == ExtractToList(store, "/imageRepositories", order, fault)
  IN /\ last' = IF r.err # "ok"
                THEN Listed("imageRepository", selector, << >>, << >>,
                            InterpretGetError(r.err, "imageRepository", ""), r.err)
                ELSE Listed("imageRepository", selector, r.items,
                            Filtered(r.items, selector), NilError, r.err)
     /\ UNCHANGED <<store, shadow, watch, parse, race>>

ListImageRepositories(selector, order, fault) ==
  LET r == ExtractToList(store, "/imageRepositories", order, fault)
  IN /\ last' = IF r.err # "ok"
                THEN Listed("imageRepository", selector, << >>, << >>,
                            ErrorsNew(r.err), r.err)
                ELSE Listed("imageRepository", selector, r.items,
                            Filtered(r.items, selector), NilError, r.err)
     /\ UNCHANGED <<store, shadow, watch, parse, race>>

GetImageRepository(id, fault) ==
  LET r == ExtractObj(store, makeImageRepositoryKey(id), fault)
  IN /\ last' = IF r.err # "ok"
                THEN Returned("get", "imageRepository", id, NoObj, NoObj,
                              InterpretGetError(r.err, "imageRepository", id), r.err)
                ELSE Returned("get", "imageRepository", id, NoObj, r.obj, NilError, r.err)
     /\ UNCHANGED <<store, shadow, watch, parse, race>>

\* CreateImageRepository writing with SetObj (overwrite) instead of CreateObj.
CreateImageRepository_Overwrite(e, fault) ==
  LET r == SetObj(store, "/imageRepositories/" \o e.id, e, fault)
      err == InterpretCreateError(r.err, "imageRepository", e.id)
  IN /\ store' = r.st
     /\ last' = Returned("create", "imageRepository", e.id, e, NoObj, err, r.err)
     /\ shadow' = Shadowed("create", "imageRepository", e.id, e, err)
     /\ UNCHANGED <<watch, parse, race>>

CreateImageRepository(e, fault) ==
  LET r == CreateObj(store, makeImageRepositoryKey(e.id), e, fault)
      err == InterpretCreateError(r.err, "imageRepository", e.id)
  IN /\ store' = r.st
     /\ last' = Returned("create", "imageRepository", e.id, e, NoObj, err, r.err)
     /\ shadow' = Shadowed("create", "imageRepository", e.id, e, err)
     /\ UNCHANGED <<watch, parse, race>>

UpdateImageRepository(e, fault) ==
  LET r == SetObj(store, makeImageRepositoryKey(e.id), e, fault)
      err == InterpretUpdateError(r.err, "imageRepository", e.id)
  IN /\ store' = r.st
     /\ last' = Returned("update", "imageRepository", e.id, e, NoObj, err, r.err)
     /\ shadow' = Shadowed("update", "imageRepository", e.id, e, err)
     /\ UNCHANGED <<watch, parse, race>>

DeleteImageRepository(id, fault) ==
  LET r == Delete(store, makeImageRepositoryKey(id), fault)
      err == InterpretDeleteError(r.err, "imageRepository", id)
  IN /\ store' = r.st
     /\ last' = Returned("delete", "imageRepository", id, NoObj, NoObj, err, r.err)
     /\ shadow' = Shadowed("delete", "imageRepository", id, NoObj, err)
     /\ UNCHANGED <<watch, parse, race>>

(***************************************************************************)
(* The resource version cursor.  Each package has its own copy of the      *)
(* function.                                                               *)
(***************************************************************************)
\* parseWatchResourceVersion without the step past the version given.
parseWatchResourceVersion_NoStep(resourceVersion, kind) ==
  IF resourceVersion = "" \/ resourceVersion = "0"
  THEN [version |-> "0", err |-> NilError]
  ELSE LET r == ParseUint(resourceVersion)
       IN IF r.err # "ok"
          THEN [version |-> "0",
                err |-> InterpretResourceVersionError(r.err, kind, resourceVersion)]
          ELSE [version |-> r.val, err |-> NilError]

\* pkg/deploy/registry/etcd
parseWatchResourceVersion(resourceVersion, kind) ==
  IF resourceVersion = "" \/ resourceVersion = "0"
  THEN [version |-> "0", err |-> NilError]
  ELSE LET r == ParseUint(resourceVersion)
       IN IF r.err # "ok"
          THEN [version |-> "0",
                err |-> InterpretResourceVersionError(r.err, kind, resourceVersion)]
          ELSE [version |-> Uint64Inc(r.val), err |-> NilError]

\* pkg/image/registry/etcd
imageParseWatchResourceVersion(resourceVersion, kind) ==
  IF resourceVersion = "" \/ resourceVersion = "0"
  THEN [version |-> "0", err |-> NilError]
  ELSE LET r == ParseUint(resourceVersion)
       IN IF r.err # "ok"
          THEN [version |-> "0",
                err |-> InterpretResourceVersionError(r.err, kind, resourceVersion)]
          ELSE [version |-> Uint64Inc(r.val), err |-> NilError]

(***************************************************************************)
(* Watch.  One subscription is followed: since is the cursor handed to the *)
(* store, opened the store's index when the subscription was opened, pos   *)
(* the place in the store's history it has come to, seen the raw events    *)
(* the store delivered to it, calls the objects the caller's predicate was *)
(* invoked on, out the events forwarded to the caller.                     *)
(***************************************************************************)
NoWatch == [state |-> "none"]

\* The caller's predicates: every object, or the objects labelled x.
Preds == {"all", "x"}

PredHolds(pred, obj) == pred = "all" \/ "x" \in obj.labels

\* EtcdHelper.WatchList(dir, version, filter): a subscription to the changes
\* under dir at or after version; version 0 is "from now on".
WatchList(st, dir, version, kind, pred, token) ==
  [state |-> "open", kind |-> kind, dir |-> dir, pred |-> pred, token |-> token,
   since |-> version, opened |-> st.index, pos |-> 0,
   seen |-> << >>, calls |-> << >>, out |-> << >>, by |-> ""]

\* The store delivers the change ev to the subscription w.
Eligible(w, ev) ==
  /\ Under(ev.key, w.dir)
  /\ IF w.since = "0" THEN ev.index > w.opened
     ELSE ~Uint64Less(ToUint64(ev.index), w.since)

\* The places of the history the subscription has still to be served.
Pending(w, st) == {p \in (w.pos + 1)..Len(st.hist) : Eligible(w, st.hist[p])}

\* The filter functions the Watch methods hand to WatchList: called tells
\* whether the caller's predicate was invoked, pass whether the event is
\* forwarded.  An object of another type is logged and dropped.
WatchDeploymentsFilter_Unchecked(obj, pred) ==
  [called |-> TRUE, pass |-> PredHolds(pred, obj)]

WatchDeploymentsFilter(obj, pred) ==
  IF obj.type # "deployment" THEN [called |-> FALSE, pass |-> FALSE]
  ELSE [called |-> TRUE, pass |-> PredHolds(pred, obj)]

WatchDeploymentConfigsFilter(obj, pred) ==
  IF obj.type # "deploymentConfig" THEN [called |-> FALSE, pass |-> FALSE]
  ELSE [called |-> TRUE, pass |-> PredHolds(pred, obj)]

WatchImageRepositoriesFilter(obj, pred) ==
  IF obj.type # "imageRepository" THEN [called |-> FALSE, pass |-> FALSE]
  ELSE [called |-> TRUE, pass |-> PredHolds(pred, obj)]

\* the filter function of the subscription w
FilterOf(w, obj) ==
  CASE w.kind = "deployment" -> WatchDeploymentsFilter(obj, w.pred)
    [] w.kind = "deploymentConfig" -> WatchDeploymentConfigsFilter(obj, w.pred)
    [] w.kind = "imageRepository" -> WatchImageRepositoriesFilter(obj, w.pred)

\* The outcome of a Watch call.  The Watch methods below open the one
\* subscription the model follows (watch.state = "none"): they parse the
\* resource version, return its error, or else hand the cursor and their
\* filter function to WatchList.
Watched(kind, token, err) ==
  [NoCall EXCEPT !.op = "watch", !.kind = kind, !.token = token, !.err = err]

WatchDeployments(resourceVersion, pred) ==
  LET p == parseWatchResourceVersion(resourceVersion, "deployment")
  IN /\ watch.state = "none"
     /\ last' = Watched("deployment", resourceVersion, p.err)
     /\ watch' = IF p.err # NilError THEN watch
                 ELSE WatchList(store, "/deployments", p.version,
                                "deployment", pred, resourceVersion)
     /\ UNCHANGED <<store, shadow, parse, race>>

\* WatchDeploymentConfigs going on to WatchList with the zero cursor when the
\* resource version does not parse.
WatchDeploymentConfigs_IgnoreParseError(resourceVersion, pred) ==
  LET p == parseWatchResourceVersion(resourceVersion, "deploymentConfig")
  IN /\ watch.state = "none"
     /\ last' = Watched("deploymentConfig", resourceVersion, p.err)
     /\ watch' = WatchList(store, "/deploymentConfigs", p.version,
                           "deploymentConfig", pred, resourceVersion)
     /\ UNCHANGED <<store, shadow, parse, race>>

WatchDeploymentConfigs(resourceVersion, pred) ==
  LET p == parseWatchResourceVersion(resourceVersion, "deploymentConfig")
  IN /\ watch.state = "none"
     /\ last' = Watched("deploymentConfig", resourceVersion, p.err)
     /\ watch' = IF p.err # NilError THEN watch
                 ELSE WatchList(store, "/deploymentConfigs", p.version,
                                "deploymentConfig", pred, resourceVersion)
     /\ UNCHANGED <<store, shadow, parse, race>>

WatchImageRepositories(resourceVersion, pred) ==
  LET p == imageParseWatchResourceVersion(resourceVersion, "imageRepository")
  IN /\ watch.state = "none"
     /\ last' = Watched("imageRepository", resourceVersion, p.err)
     /\ watch' = IF p.err # NilError THEN watch
                 ELSE WatchList(store, "/imageRepositories", p.version,
                                "imageRepository", pred, resourceVersion)
     /\ UNCHANGED <<store, shadow, parse, race>>

\* Deliver with a subscription that goes on after it was closed.
Deliver_AfterClose ==
  /\ watch.state \in {"open", "closed"}
  /\ Pending(watch, store) # {}
  /\ LET p == CHOOSE q \in Pending(watch, store) :
                \A r \in Pending(watch, store) : q <= r
         ev == store.hist[p]
         f == FilterOf(watch, ev.obj)
     IN watch' = [watch EXCEPT
                    !.pos = p,
                    !.seen = Append(@, ev),
                    !.calls = IF f.called THEN Append(@, ev.obj) ELSE @,
                    !.out = IF f.pass THEN Append(@, ev) ELSE @]
  /\ UNCHANGED <<store, last, shadow, parse, race>>

\* The open subscription takes the next change the store has for it, runs
\* the filter function on the decoded object and forwards the event or drops
\* it.
Deliver ==
  /\ watch.state = "open"
  /\ Pending(watch, store) # {}
  /\ LET p == CHOOSE q \in Pending(watch, store) :
                \A r \in Pending(watch, store) : q <= r
         ev == store.hist[p]
         f == FilterOf(watch, ev.obj)
     IN watch' = [watch EXCEPT
                    !.pos = p,
                    !.seen = Append(@, ev),
                    !.calls = IF f.called THEN Append(@, ev.obj) ELSE @,
                    !.out = IF f.pass THEN Append(@, ev) ELSE @]
  /\ UNCHANGED <<store, last, shadow, parse, race>>

\* watch.Interface.Stop(): the caller cancels the subscription.
Stop ==
  /\ watch.state = "open"
  /\ watch' = [watch EXCEPT !.state = "closed", !.by = "stop"]
  /\ UNCHANGED <<store, last, shadow, parse, race>>

\* UpstreamClose with a subscription that is opened again where it stood
\* when the store ends the connection.
UpstreamClose_Resubscribe ==
  /\ watch.state = "open"
  /\ watch' = [watch EXCEPT !.by = "upstream"]
  /\ UNCHANGED <<store, last, shadow, parse, race>>

\* The store ends the connection.
UpstreamClose ==
  /\ watch.state = "open"
  /\ watch' = [watch EXCEPT !.state = "closed", !.by = "upstream"]
  /\ UNCHANGED <<store, last, shadow, parse, race>>

\* Another client of the store sets an object of another kind under a kind's
\* namespace.
ForeignSet(key, obj) ==
  /\ store' = SetObj(store, key, obj, FALSE).st
  /\ UNCHANGED <<last, shadow, watch, parse, race>>

\* The key a kind's registry builds for an id.
KeyOf(kind, id) ==
  CASE kind = "deployment" -> makeDeploymentKey(id)
    [] kind = "deploymentConfig" -> makeDeploymentConfigKey(id)
    [] kind = "image" -> makeImageKey(id)
    [] kind = "imageRepository" -> makeImageRepositoryKey(id)

(***************************************************************************)
(* Concurrent Creates.  Each client is inside the Create method of the     *)
(* kind with its own entity: at the store call (pc "call"), between the    *)
(* store call and the translation of its outcome ("translate"), or         *)
(* returned ("done").  The four Create methods differ in the key and the   *)
(* kind name only.                                                         *)
(***************************************************************************)
NoRace == [state |-> "none"]

Creators == 1..MaxCreators

\* The store call of Create writing with SetObj (overwrite).
CreateCall_Overwrite(c, fault) ==
  /\ race.state = "racing"
  /\ race.pc[c] = "call"
  /\ LET r == SetObj(store, KeyOf(race.kind, race.e[c].id), race.e[c], fault)
     IN /\ store' = r.st
        /\ race' = [race EXCEPT !.pc[c] = "translate", !.storeErr[c] = r.err]
  /\ UNCHANGED <<last, shadow, watch, parse>>

\* err := r.CreateObj(makeKey(e.ID), e, 0): one call of the store.
CreateCall(c, fault) ==
  /\ race.state = "racing"
  /\ race.pc[c] = "call"
  /\ LET r == CreateObj(store, KeyOf(race.kind, race.e[c].id), race.e[c], fault)
     IN /\ store' = r.st
        /\ race' = [race EXCEPT !.pc[c] = "translate", !.storeErr[c] = r.err]
  /\ UNCHANGED <<last, shadow, watch, parse>>

\* return etcderr.InterpretCreateError(err, kind, e.ID)
CreateReturn(c) ==
  /\ race.state = "racing"
  /\ race.pc[c] = "translate"
  /\ LET err == InterpretCreateError(race.storeErr[c], race.kind, race.e[c].id)
     IN /\ race' = [race EXCEPT !.pc[c] = "done", !.err[c] = err]
        /\ shadow' = Shadowed("create", race.kind, race.e[c].id, race.e[c], err)
  /\ UNCHANGED <<store, last, watch, parse>>

(***************************************************************************)
(* The specification of the CRUD and List calls, and of the Watch calls    *)
(* that are rejected for their resource version.                           *)
(***************************************************************************)
\* resource versions that are present and no non-negative integer
RejectedTokens == {"abc", "-1"}

NoParse == [state |-> "none"]

Init ==
  /\ store = EmptyStore
  /\ last = NoCall
  /\ shadow = [p \in Kinds \X Ids |-> NoWrite]
  /\ watch = NoWatch
  /\ parse = NoParse
  /\ race = NoRace

\* The store takes no more than MaxIndex changes.
CanWrite == store.index < MaxIndex

\* The caller is between two calls.
Idle == last = NoCall

\* The caller has taken the outcome of its call.
Return ==
  /\ last # NoCall
  /\ last' = NoCall
  /\ UNCHANGED <<store, shadow, watch, parse, race>>

Next ==
  \/ \E sel \in Selectors, fault \in BOOLEAN :
       Idle /\ \E order \in ListOrders(store, "/deployments") : ListDeployments(sel, order, fault)
  \/ \E id \in Ids, fault \in BOOLEAN : Idle /\ GetDeployment(id, fault)
  \/ \E e \in Entities("deployment"), fault \in BOOLEAN : Idle /\ CanWrite /\ CreateDeployment(e, fault)
  \/ \E e \in Entities("deployment"), fault \in BOOLEAN : Idle /\ CanWrite /\ UpdateDeployment(e, fault)
  \/ \E id \in Ids, fault \in BOOLEAN : Idle /\ CanWrite /\ DeleteDeployment(id, fault)
  \/ \E sel \in Selectors, fault \in BOOLEAN :
       Idle /\ \E order \in ListOrders(store, "/deploymentConfigs") : ListDeploymentConfigs(sel, order, fault)
  \/ \E id \in Ids, fault \in BOOLEAN : Idle /\ GetDeploymentConfig(id, fault)
  \/ \E e \in Entities("deploymentConfig"), fault \in BOOLEAN : Idle /\ CanWrite /\ CreateDeploymentConfig(e, fault)
  \/ \E e \in Entities("deploymentConfig"), fault \in BOOLEAN : Idle /\ CanWrite /\ UpdateDeploymentConfig(e, fault)
  \/ \E id \in Ids, fault \in BOOLEAN : Idle /\ CanWrite /\ DeleteDeploymentConfig(id, fault)
  \/ \E sel \in Selectors, fault \in BOOLEAN :
       Idle /\ \E order \in ListOrders(store, "/images") : ListImages(sel, order, fault)
  \/ \E id \in Ids, fault \in BOOLEAN : Idle /\ GetImage(id, fault)
  \/ \E e \in Entities("image"), fault \in BOOLEAN : Idle /\ CanWrite /\ CreateImage(e, fault)
  \/ \E e \in Entities("image") : Idle /\ UpdateImage(e)
  \/ \E id \in Ids, fault \in BOOLEAN : Idle /\ CanWrite /\ DeleteImage(id, fault)
  \/ \E sel \in Selectors, fault \in BOOLEAN :
       Idle /\ \E order \in ListOrders(store, "/imageRepositories") : ListImageRepositories(sel, order, fault)
  \/ \E id \in Ids, fault \in BOOLEAN : Idle /\ GetImageRepository(id, fault)
  \/ \E e \in Entities("imageRepository"), fault \in BOOLEAN : Idle /\ CanWrite /\ CreateImageRepository(e, fault)
  \/ \E e \in Entities("imageRepository"), fault \in BOOLEAN : Idle /\ CanWrite /\ UpdateImageRepository(e, fault)
  \/ \E id \in Ids, fault \in BOOLEAN : Idle /\ CanWrite /\ DeleteImageRepository(id, fault)
  \/ \E token \in RejectedTokens, pred \in Preds : Idle /\ WatchDeployments(token, pred)
  \/ \E token \in RejectedTokens, pred \in Preds : Idle /\ WatchDeploymentConfigs(token, pred)
  \/ \E token \in RejectedTokens, pred \in Preds : Idle /\ WatchImageRepositories(token, pred)
  \/ Return

Spec == Init /\ [][Next]_vars

(***************************************************************************)
(* The specification of Watch: a subscription of one of the three watched  *)
(* kinds, beside registry writes of one id and foreign writes to the       *)
(* watched namespaces.  The outcome of a call is taken (Return) before the *)
(* next step.                                                              *)
(***************************************************************************)
WatchTokens == {"", "1", "abc", "-1", MaxUint64}

WatchId == "a"

Written(kind) == {e \in Entities(kind) : e.id = WatchId}

\* an object of a kind set under the namespace of another kind
Foreign ==
  {<<makeDeploymentKey(WatchId), [type |-> "deploymentConfig", id |-> WatchId, labels |-> {"x"}]>>,
   <<makeDeploymentConfigKey(WatchId), [type |-> "image", id |-> WatchId, labels |-> {"x"}]>>,
   <<makeImageRepositoryKey(WatchId), [type |-> "deployment", id |-> WatchId, labels |-> {"x"}]>>}

NextWatch ==
  \/ \E token \in WatchTokens, pred \in Preds : Idle /\ WatchDeployments(token, pred)
  \/ \E token \in WatchTokens, pred \in Preds : Idle /\ WatchDeploymentConfigs(token, pred)
  \/ \E token \in WatchTokens, pred \in Preds : Idle /\ WatchImageRepositories(token, pred)
  \/ Idle /\ Deliver
  \/ Idle /\ Stop
  \/ Idle /\ UpstreamClose
  \/ \E e \in Written("deployment") : Idle /\ CanWrite /\ CreateDeployment(e, FALSE)
  \/ \E e \in Written("deployment") : Idle /\ CanWrite /\ UpdateDeployment(e, FALSE)
  \/ Idle /\ CanWrite /\ DeleteDeployment(WatchId, FALSE)
  \/ \E e \in Written("deploymentConfig") : Idle /\ CanWrite /\ UpdateDeploymentConfig(e, FALSE)
  \/ \E e \in Written("imageRepository") : Idle /\ CanWrite /\ UpdateImageRepository(e, FALSE)
  \/ \E f \in Foreign : Idle /\ CanWrite /\ ForeignSet(f[1], f[2])
  \/ Return

SpecWatch == Init /\ [][NextWatch]_vars

(***************************************************************************)
(* Properties of the CRUD and List calls, over the outcome of the call     *)
(* just made (last) and the last successful write of its id (shadow).      *)
(***************************************************************************)
CrudOps == {"get", "create", "update", "delete"}

\* The store call of the last registry call was answered by the store.
Answered == last.storeErr # "Unavailable"

\* C1: after a successful Create(e), a Get of e.id returns an entity equal to
\* e as long as no Update or Delete of that id has succeeded since, whatever
\* was written to other ids and other kinds in between (a Get whose store
\* call is not answered returns that failure and no entity).
C1_GetReturnsCreated ==
  (last.op = "get" /\ last.before = "create")
    => IF Answered
       THEN last.err = NilError /\ last.obj = shadow[<<last.kind, last.id>>].obj
       ELSE last.err # NilError /\ last.obj = NoObj

\* A Get returned the created entity after another key was written since.
C1_Witness ==
  /\ last.op = "get" /\ last.before = "create" /\ last.err = NilError
  /\ last.obj = shadow[<<last.kind, last.id>>].obj
  /\ store.index = 2
  /\ store.hist[2].obj.id # last.id
  /\ store.hist[1].obj = last.obj

\* C2: a Create of an id that is present in the kind's namespace (written
\* and not deleted since) never succeeds, and fails with AlreadyExists
\* whenever the store answers.
C2_CreateExistingFails ==
  (last.op = "create" /\ last.before \in {"create", "update"})
    => /\ last.err # NilError
       /\ Answered =>
            last.err = DomainError("AlreadyExists", "create", last.kind, last.id)

\* The second of two Creates of one id failed with AlreadyExists.
C2_Witness ==
  /\ last.op = "create" /\ last.before = "create"
  /\ last.err.code = "AlreadyExists"
  /\ store.index = 1

\* C3: a Get of an id whose last successful write is a Delete, or a Get or
\* Delete of an id never written, never succeeds and fails with NotFound
\* whenever the store answers.
C3_AbsentIsNotFound ==
  (last.op \in {"get", "delete"} /\ last.before \in {"delete", "none"})
    => /\ last.err # NilError
       /\ last.obj = NoObj
       /\ Answered =>
            last.err = DomainError("NotFound", last.op, last.kind, last.id)

\* A Get after a successful Delete of a created id failed with NotFound.
C3_Witness ==
  /\ last.op = "get" /\ last.before = "delete"
  /\ last.err.code = "NotFound"
  /\ store.index = 2
  /\ store.hist[2].action = "delete"

\* The positions of raw whose labels satisfy the selector.
MatchingPositions(raw, selector) ==
  {j \in 1..Len(raw) : Matches(selector, raw[j].labels)}

\* The i-th smallest member of a set of positions.
NthPosition(positions, i) ==
  CHOOSE j \in positions : Cardinality({m \in positions : m <= j}) = i

\* The entities of a kind the registry has written and not deleted.
Collection(kind) ==
  {shadow[p].obj : p \in {q \in {kind} \X Ids : shadow[q].st \in {"create", "update"}}}

\* C4: an answered List returns no error and exactly the items of the
\* store's enumeration of the kind whose labels satisfy the selector, in
\* enumeration order, each once; the enumeration holds each stored entity of
\* the kind once; the always-true selector returns the enumeration itself and
\* a selector that matches nothing returns the empty collection.
C4_ListIsFilteredEnumeration ==
  (last.op = "list" /\ Answered)
    => LET pos == MatchingPositions(last.raw, last.sel)
       IN /\ last.err = NilError
          /\ {last.raw[j] : j \in 1..Len(last.raw)} = Collection(last.kind)
          /\ Len(last.raw) = Cardinality(Collection(last.kind))
          /\ Len(last.items) = Cardinality(pos)
          /\ \A i \in 1..Len(last.items) :
               last.items[i] = last.raw[NthPosition(pos, i)]
          /\ last.sel = {} => last.items = last.raw
          /\ pos = {} => last.items = << >>

\* A List kept two of two enumerated entities, in order.
C4_Witness ==
  /\ last.op = "list" /\ last.err = NilError
  /\ last.sel = {"x"}
  /\ Len(last.raw) = 2 /\ Len(last.items) = 2
  /\ last.items[1] # last.items[2]

DomainCodes ==
  {"NotFound", "AlreadyExists", "Conflict", "InvalidResourceVersion",
   "Unsupported", "Internal"}

\* C10: every error a Get, Create, Update or Delete returns is a domain error
\* tagged with the operation, the kind and the id; a failed store call gives
\* a non-nil error and a store call that succeeds gives nil.
C10_CrudErrorsTagged ==
  (last.op \in CrudOps)
    => /\ last.err # NilError =>
            /\ last.err.code \in DomainCodes
            /\ last.err.op = last.op
            /\ last.err.kind = last.kind
            /\ last.err.id = last.id
       /\ last.storeErr \notin {"ok", "none"} => last.err # NilError
       /\ last.storeErr = "ok" => last.err = NilError

\* C11: a List whose store extraction fails returns the store's error as it
\* is, not a domain error of the translator, and no collection: nothing was
\* extracted and nothing filtered, whatever the kind holds and whatever the
\* selector.
C11_ListFailureVerbatim ==
  (last.op = "list" /\ last.storeErr # "ok")
    => /\ last.err = ErrorsNew(last.storeErr)
       /\ last.err # NilError
       /\ last.err.code \notin DomainCodes
       /\ last.err.op = "" /\ last.err.kind = ""
       /\ last.raw = << >>
       /\ last.items = << >>

\* A List failed in the store while the kind held an entity the selector
\* matches.
C11_Witness ==
  /\ last.op = "list" /\ last.storeErr = "Unavailable"
  /\ last.err.code = "Unavailable"
  /\ \E e \in Collection(last.kind) : Matches(last.sel, e.labels)

C19_ErrorLeavesStore ==
  [][(last' # last /\ last'.err # NilError)
       => (store' = store /\ shadow' = shadow /\ watch' = watch)]_vars

\* A Create of a present id with another entity failed with AlreadyExists
\* and the entity stored before is still the one stored.
C19_Witness ==
  /\ last.op = "create" /\ last.err.code = "AlreadyExists"
  /\ store.index = 1
  /\ store.nodes[KeyOf(last.kind, last.id)] # last.arg
  /\ store.nodes[KeyOf(last.kind, last.id)] = shadow[<<last.kind, last.id>>].obj

\* The namespace literal of a kind: the directory its List extracts.
Namespace(kind) ==
  CASE kind = "deployment" -> "/deployments"
    [] kind = "deploymentConfig" -> "/deploymentConfigs"
    [] kind = "image" -> "/images"
    [] kind = "imageRepository" -> "/imageRepositories"

\* ids the key functions are tried on, beside those the registry calls use
KeyIds == Ids \cup {"", "ab", "a/b", "s/a", "Configs/a"}

\* what a Get of the kind and id finds in the store st
GetResult(st, kind, id) == ExtractObj(st, KeyOf(kind, id), FALSE)

\* what a List of the kind has to enumerate in the store st
ListResult(st, kind) ==
  [k \in {key \in DOMAIN st.nodes : Under(key, Namespace(kind))} |-> st.nodes[k]]

\* C20: the key of a kind and id is the kind's namespace literal, "/" and the
\* id; two keys are equal only for the same kind and the same id; and a
\* Create, Update or Delete of one kind and id, whatever it returns, leaves
\* what Get finds for every other id of the kind and for every id of the
\* other kinds, and what List enumerates for every other kind, as they were.
C20_KindsAndIdsApart ==
  /\ \A k \in Kinds, i \in KeyIds : KeyOf(k, i) = Namespace(k) \o "/" \o i
  /\ \A k1 \in Kinds, k2 \in Kinds, i1 \in KeyIds, i2 \in KeyIds :
       KeyOf(k1, i1) = KeyOf(k2, i2) => (k1 = k2 /\ i1 = i2)
  /\ [][(last' # last /\ last'.op \in {"create", "update", "delete"})
          => /\ \A k \in Kinds, i \in Ids :
                  <<k, i>> # <<last'.kind, last'.id>>
                    => GetResult(store', k, i) = GetResult(store, k, i)
             /\ \A k \in Kinds \ {last'.kind} :
                  ListResult(store', k) = ListResult(store, k)]_vars

\* A deployment was updated while a deploymentConfig of the same id was
\* stored, and the deploymentConfig is still what was written.
C20_Witness ==
  /\ last.op = "update" /\ last.kind = "deployment" /\ last.err = NilError
  /\ store.index = 2
  /\ Present(store, makeDeploymentConfigKey(last.id))
  /\ store.nodes[makeDeploymentConfigKey(last.id)]
       = shadow[<<"deploymentConfig", last.id>>].obj
  /\ store.nodes[makeDeploymentKey(last.id)] = last.arg

(***************************************************************************)
(* The specification of the version parser alone: a token and a kind are   *)
(* drawn, and the package's parser is applied to them.                     *)
(***************************************************************************)
TokenChars == {"0", "1", "5", "9", "a", "-"}

\* the strings over TokenChars of length n
RECURSIVE StringsOfLen(_)
StringsOfLen(n) ==
  IF n = 0 THEN {""}
  ELSE {t \o c : t \in StringsOfLen(n - 1), c \in TokenChars}

\* tokens beyond the generated length: a word, numerals around 2^64, numerals
\* with leading zeros, a signed numeral.
LongTokens ==
  {"abc", "18446744073709551614", "18446744073709551615",
   "18446744073709551616", "99999999999999999999", "000", "005", "+5"}

Tokens == UNION {StringsOfLen(n) : n \in 0..MaxTokLen} \cup LongTokens

\* the kinds each package's Watch methods name
DeployWatchKinds == {"deployment", "deploymentConfig"}
ImageWatchKinds == {"imageRepository"}

InitParse ==
  /\ store = EmptyStore
  /\ last = NoCall
  /\ shadow = [p \in Kinds \X Ids |-> NoWrite]
  /\ watch = NoWatch
  /\ race = NoRace
  /\ parse \in [state : {"arg"}, token : Tokens,
                kind : DeployWatchKinds \cup ImageWatchKinds,
                version : {"0"}, err : {NilError}]

ParseDeploy ==
  /\ parse.state = "arg"
  /\ parse.kind \in DeployWatchKinds
  /\ LET r == parseWatchResourceVersion(parse.token, parse.kind)
     IN parse' = [parse EXCEPT !.state = "done", !.version = r.version, !.err = r.err]
  /\ UNCHANGED <<store, last, shadow, watch, race>>

ParseImage ==
  /\ parse.state = "arg"
  /\ parse.kind \in ImageWatchKinds
  /\ LET r == imageParseWatchResourceVersion(parse.token, parse.kind)
     IN parse' = [parse EXCEPT !.state = "done", !.version = r.version, !.err = r.err]
  /\ UNCHANGED <<store, last, shadow, watch, race>>

NextParse == ParseDeploy \/ ParseImage

SpecParse == InitParse /\ [][NextParse]_vars

(***************************************************************************)
(* Properties of the version parser.                                       *)
(***************************************************************************)
Parsed == parse.state = "done"

\* the token is a non-empty string of decimal digits
AllDigits(token) ==
  /\ token # ""
  /\ \A i \in 1..Len(token) : SubSeq(token, i, i) \in DigitChars

\* the token with its leading zeros removed (the numeral of its value)
RECURSIVE Numeral(_)
Numeral(token) ==
  IF Len(token) > 1 /\ SubSeq(token, 1, 1) = "0"
  THEN Numeral(SubSeq(token, 2, Len(token)))
  ELSE token

\* the token denotes an integer of 64 bits
IsUint64(token) == AllDigits(token) /\ ~Uint64Less(MaxUint64, Numeral(token))

\* C5: the parser maps "" and "0" to cursor 0 with no error, a token that is
\* a valid non-negative base-10 integer N to cursor N+1 with no error ("5" to
\* 6), and fails with InvalidResourceVersion carrying the kind and the token
\* for any other token ("abc").
C5_ParseContract ==
  Parsed =>
    /\ parse.token \in {"", "0"} => parse.version = "0" /\ parse.err = NilError
    /\ parse.token = "5" => parse.version = "6" /\ parse.err = NilError
    /\ (IsUint64(parse.token) /\ parse.token # "0") =>
         /\ parse.version = Successor(Numeral(parse.token))
         /\ parse.err = NilError
    /\ (parse.token # "" /\ ~IsUint64(parse.token)) =>
         /\ parse.err.code = "InvalidResourceVersion"
         /\ parse.err.kind = parse.kind
         /\ parse.err.value = parse.token
         /\ parse.version = "0"

\* The contract of the parser below the last 64-bit value: as C5, for the
\* tokens whose value N is less than 2^64-1; the token 2^64-1 gives cursor 0.
ParseContractBelowMax ==
  Parsed =>
    /\ parse.token \in {"", "0"} => parse.version = "0" /\ parse.err = NilError
    /\ parse.token = "5" => parse.version = "6" /\ parse.err = NilError
    /\ (IsUint64(parse.token) /\ parse.token # "0"
          /\ Numeral(parse.token) # MaxUint64) =>
         /\ parse.version = Successor(Numeral(parse.token))
         /\ parse.err = NilError
    /\ (IsUint64(parse.token) /\ Numeral(parse.token) = MaxUint64) =>
         /\ parse.version = "0"
         /\ parse.err = NilError
    /\ (parse.token # "" /\ ~IsUint64(parse.token)) =>
         /\ parse.err.code = "InvalidResourceVersion"
         /\ parse.err.kind = parse.kind
         /\ parse.err.value = parse.token
         /\ parse.version = "0"

\* C15: for every token that is the numeral of a 64-bit integer N other than
\* 0, 2^64-1 included, the parser returns no error and the cursor N+1, which
\* is greater than N.
C15_CursorIsSuccessor ==
  (Parsed /\ IsUint64(parse.token) /\ Numeral(parse.token) # "0")
    => /\ parse.err = NilError
       /\ parse.version = Successor(Numeral(parse.token))
       /\ Uint64Less(Numeral(parse.token), parse.version)

\* the token denotes version 0: it is empty or a numeral of zero
DenotesZero(token) == token = "" \/ (AllDigits(token) /\ Numeral(token) = "0")

\* C17: every token that denotes version 0 ("", "0", "00", ...) gives cursor 0
\* and no error, and a cursor other than 0 is given only for a token that
\* denotes a version greater than 0.
C17_ZeroTokensGiveZero ==
  Parsed =>
    /\ DenotesZero(parse.token) => (parse.version = "0" /\ parse.err = NilError)
    /\ parse.version # "0" => (IsUint64(parse.token) /\ ~DenotesZero(parse.token))

(***************************************************************************)
(* Properties of Watch.                                                    *)
(***************************************************************************)
Subscribed == watch.state # "none"

\* the token of the subscription denotes a version N > 0
TokenIsPositive == IsUint64(watch.token) /\ Numeral(watch.token) # "0"

\* every forwarded event has a store version greater than the token's N
ForwardedAfterToken ==
  \A i \in 1..Len(watch.out) :
    Uint64Less(Numeral(watch.token), ToUint64(watch.out[i].index))

\* C6: a Watch opened with a token N > 0 never forwards an event whose store
\* version is less than or equal to N.
C6_NothingAtOrBeforeToken ==
  (Subscribed /\ TokenIsPositive) => ForwardedAfterToken

\* The same for the tokens below the last 64-bit value.
NothingAtOrBeforeTokenBelowMax ==
  (Subscribed /\ TokenIsPositive /\ Numeral(watch.token) # MaxUint64)
    => ForwardedAfterToken

\* A watch from token 1 has been served the history, skipped version 1 and
\* forwarded version 2.
NothingAtOrBeforeTokenBelowMax_Witness ==
  /\ Subscribed /\ watch.token = "1"
  /\ Len(store.hist) = 2
  /\ Under(store.hist[1].key, watch.dir)
  /\ watch.pos = 2
  /\ Len(watch.out) = 1 /\ watch.out[1].index = 2

\* the event is forwarded by the caller's predicate of the subscription
Forwardable(ev) ==
  ev.obj.type = watch.kind /\ PredHolds(watch.pred, ev.obj)

\* C8: an open subscription can be cancelled at any point, whatever the store
\* has pending for it; the cancellation itself forwards nothing, and once
\* cancelled the subscription forwards no event and takes none from the
\* store, whatever changes arrive.
C8_StopEndsStream ==
  /\ [](watch.state = "open" => ENABLED Stop)
  /\ [][(watch.state = "open" /\ watch'.state = "closed" /\ watch'.by = "stop")
          => (watch'.out = watch.out /\ watch'.seen = watch.seen)]_vars
  /\ [][(watch.state = "closed" /\ watch.by = "stop") => watch' = watch]_vars

\* A subscription was cancelled while a change it would forward was pending.
C8_Witness ==
  /\ watch.state = "closed" /\ watch.by = "stop"
  /\ \E p \in Pending(watch, store) : Forwardable(store.hist[p])

\* the event carries an object of the kind watched
Expected(ev) == ev.obj.type = watch.kind

\* C9: of the raw events an open subscription is served, those whose object
\* is not of the watched kind are dropped without a call of the caller's
\* predicate, and those of the watched kind are handed to the predicate and
\* forwarded exactly when it returns true, in the order served; taking an
\* event never closes the subscription.
C9_MismatchDropped ==
  /\ [](Subscribed =>
          /\ watch.out = SelectSeq(watch.seen, Forwardable)
          /\ LET handed == SelectSeq(watch.seen, Expected)
             IN watch.calls = [i \in 1..Len(handed) |-> handed[i].obj])
  /\ [][(Subscribed /\ watch'.seen # watch.seen) => watch'.state = watch.state]_vars

\* An object of another kind was dropped, and the next event, of the watched
\* kind and satisfying the predicate, was forwarded.
C9_Witness ==
  /\ watch.state = "open"
  /\ Len(watch.seen) = 2
  /\ ~Expected(watch.seen[1])
  /\ PredHolds(watch.pred, watch.seen[1].obj)
  /\ watch.out = <<watch.seen[2]>>
  /\ watch.calls = <<watch.seen[2].obj>>

\* C12: a Watch called with a token that is present and not a non-negative
\* 64-bit integer returns InvalidResourceVersion carrying the kind and the
\* token, opens no subscription (so no event is taken from the store and the
\* caller's predicate is not invoked) and leaves the store as it was.
C12_InvalidTokenRejected ==
  /\ []((last.op = "watch" /\ last.token # "" /\ ~IsUint64(last.token))
          => /\ last.err = InterpretResourceVersionError("syntax", last.kind, last.token)
             /\ last.err.code = "InvalidResourceVersion"
             /\ watch = NoWatch
             /\ ~ENABLED Deliver)
  /\ [][(last'.op = "watch" /\ last'.err # NilError)
          => (watch' = watch /\ store' = store)]_vars

\* A Watch of a namespace that holds a change was rejected for its token.
C12_Witness ==
  /\ last.op = "watch" /\ last.token \in {"abc", "-1"}
  /\ last.err.code = "InvalidResourceVersion"
  /\ watch.state = "none"
  /\ \E i \in 1..Len(store.hist) : store.hist[i].obj.type = last.kind

\* C13: a subscription is closed exactly when the caller cancelled it or the
\* store ended the connection; the step that closes it forwards nothing and
\* makes no registry or store call; a closed subscription, whichever way it
\* was closed, never changes again: it is not opened again and it takes and
\* forwards no event.
C13_StreamEndsOnce ==
  /\ [](Subscribed =>
          (watch.state = "closed" <=> watch.by \in {"stop", "upstream"}))
  /\ [][(Subscribed /\ watch.state = "open" /\ watch'.state # "open")
          => /\ watch'.state = "closed"
             /\ watch'.out = watch.out /\ watch'.seen = watch.seen
             /\ last' = last /\ store' = store]_vars
  /\ [][(Subscribed /\ watch.state = "closed") => watch' = watch]_vars

\* The store ended the connection of a subscription that had forwarded an
\* event, and a change it would forward has arrived since.
C13_Witness ==
  /\ watch.state = "closed" /\ watch.by = "upstream"
  /\ Len(watch.out) = 1
  /\ \E p \in Pending(watch, store) : Forwardable(store.hist[p])

(***************************************************************************)
(* The specification of a resumed Watch: a caller that has observed the    *)
(* changes of /deployments up to some version opens WatchDeployments with  *)
(* that version, beside writes to the namespace.  The store serves an open *)
(* subscription whatever the caller does meanwhile, and goes on serving it *)
(* as long as it is open and has a change for it (weak fairness of         *)
(* Deliver).                                                               *)
(***************************************************************************)
ResumeTokens == {"1", "2"}

\* The store takes one change more than in the other specifications.
CanWriteResume == store.index < MaxIndex + 1

ResumeForeign == {f \in Foreign : Under(f[1], "/deployments")}

NextResume ==
  \/ \E token \in ResumeTokens, pred \in Preds : Idle /\ WatchDeployments(token, pred)
  \/ Deliver
  \/ Idle /\ Stop
  \/ Idle /\ UpstreamClose
  \/ \E e \in Written("deployment") : Idle /\ CanWriteResume /\ UpdateDeployment(e, FALSE)
  \/ Idle /\ CanWriteResume /\ DeleteDeployment(WatchId, FALSE)
  \/ \E f \in ResumeForeign : Idle /\ CanWriteResume /\ ForeignSet(f[1], f[2])
  \/ Return

SpecResume == Init /\ [][NextResume]_vars /\ WF_vars(Deliver)

\* the change is under the watched namespace, later than the token's version
\* N, of the watched kind and accepted by the caller's predicate
LaterForwardable(ev) ==
  /\ Under(ev.key, watch.dir)
  /\ Uint64Less(Numeral(watch.token), ToUint64(ev.index))
  /\ Forwardable(ev)

\* every change of the history that is to be forwarded has been forwarded
AllLaterForwarded ==
  \A p \in 1..Len(store.hist) :
    LaterForwardable(store.hist[p])
      => \E i \in 1..Len(watch.out) : watch.out[i] = store.hist[p]

\* C16: a Watch opened with the version N > 0 has forwarded, at any moment,
\* exactly the changes of the store's history up to the place it has come to
\* that are under the namespace, later than N, of the watched kind and
\* accepted by the predicate, each once and in store order, the change of
\* version N itself and the earlier ones left out; and unless it is closed it
\* catches up again and again with all such changes the store has made, so
\* each of them is forwarded.
C16_ResumeDeliversLater ==
  /\ [](Subscribed =>
          watch.out = SelectSeq(SubSeq(store.hist, 1, watch.pos), LaterForwardable))
  /\ []<>(Subscribed => (watch.state = "closed" \/ AllLaterForwarded))

\* A watch resumed from version 1, which was a change of the namespace the
\* predicate accepts, has forwarded versions 2 and 3, in that order.
C16_Witness ==
  /\ watch.state = "open" /\ watch.token = "1"
  /\ Len(store.hist) = 3
  /\ Under(store.hist[1].key, watch.dir) /\ Forwardable(store.hist[1])
  /\ Len(watch.out) = 2
  /\ watch.out[1].index = 2 /\ watch.out[2].index = 3

(***************************************************************************)
(* The specification of concurrent Creates: the clients are inside Create  *)
(* of one kind, each with an entity of the same id, on an empty store; the *)
(* steps of different clients interleave freely.  When all have returned,  *)
(* the id is read with Get.                                                *)
(***************************************************************************)
RaceId == "a"

InitRace ==
  /\ store = EmptyStore
  /\ last = NoCall
  /\ shadow = [p \in Kinds \X Ids |-> NoWrite]
  /\ watch = NoWatch
  /\ parse = NoParse
  /\ \E kind \in Kinds :
       \E es \in [Creators -> {e \in Entities(kind) : e.id = RaceId}] :
         race = [state |-> "racing", kind |-> kind, e |-> es,
                 pc |-> [c \in Creators |-> "call"],
                 storeErr |-> [c \in Creators |-> "none"],
                 err |-> [c \in Creators |-> NilError]]

AllDone == \A c \in Creators : race.pc[c] = "done"

NextRace ==
  \/ \E c \in Creators, fault \in BOOLEAN : CreateCall(c, fault)
  \/ \E c \in Creators : CreateReturn(c)
  \/ AllDone /\ Idle /\ race.kind = "deployment" /\ GetDeployment(RaceId, FALSE)
  \/ AllDone /\ Idle /\ race.kind = "deploymentConfig" /\ GetDeploymentConfig(RaceId, FALSE)
  \/ AllDone /\ Idle /\ race.kind = "image" /\ GetImage(RaceId, FALSE)
  \/ AllDone /\ Idle /\ race.kind = "imageRepository" /\ GetImageRepository(RaceId, FALSE)
  \/ Return

SpecRace == InitRace /\ [][NextRace]_vars

\* the clients whose Create returned no error
Succeeded == {c \in Creators : race.pc[c] = "done" /\ race.err[c] = NilError}

\* the clients whose store call the store answered
AnsweredCreators ==
  {c \in Creators : race.pc[c] # "call" /\ race.storeErr[c] # "Unavailable"}

\* C18: of the Creates of one kind and id that run concurrently, in every
\* interleaving of their steps, at most one returns no error; every other
\* one the store answered returns AlreadyExists; when all have returned and
\* the store answered any of them, exactly one has succeeded; the entity
\* stored, and returned by a Get afterwards, is the one of the Create that
\* succeeded.
C18_OneCreateWins ==
  race.state = "racing" =>
    /\ Cardinality(Succeeded) <= 1
    /\ \A c \in AnsweredCreators :
         (race.pc[c] = "done" /\ c \notin Succeeded)
           => race.err[c] = DomainError("AlreadyExists", "create", race.kind, RaceId)
    /\ (AllDone /\ AnsweredCreators # {}) => Cardinality(Succeeded) = 1
    /\ \A c \in Succeeded :
         /\ Present(store, KeyOf(race.kind, RaceId))
         /\ store.nodes[KeyOf(race.kind, RaceId)] = race.e[c]
    /\ (AllDone /\ last.op = "get" /\ Succeeded # {})
         => /\ last.err = NilError
            /\ \A c \in Succeeded : last.obj = race.e[c]

\* Every Create has returned: the one of client 2 succeeded, client 1, with a
\* different entity, got AlreadyExists, and the Get returned the entity of
\* client 2.
C18_Witness ==
  /\ race.state = "racing" /\ AllDone
  /\ Succeeded = {2}
  /\ race.err[1].code = "AlreadyExists"
  /\ race.e[1] # race.e[2]
  /\ \A c \in Creators \ {2} : race.err[c].code = "AlreadyExists"
  /\ last.op = "get" /\ last.obj = race.e[2]

====
